---- MODULE Spec2Model ----
(***************************************************************************)
(* Model of the download / conversion pipeline of arxiv-mcp-server         *)
(* (src/src/arxiv_mcp_server/tools/download.py).                           *)
(*                                                                         *)
(* Request handlers (handle_download) are coroutines of one event loop:    *)
(* at most one of them executes at a time and a handler gives the loop up  *)
(* only at `await fetch_html_as_markdown` (line 220) or by returning.      *)
(* convert_pdf_to_markdown runs in a worker thread (asyncio.to_thread), so *)
(* its statements interleave with the statements of the running handler.   *)
(* Program positions are named after the source line they are about to     *)
(* execute. The locals of a call are dropped when the call returns; what   *)
(* it returned (and what it did) is kept in `ret` / `cret` for one step.   *)
(***************************************************************************)
EXTENDS Integers, FiniteSets, Sequences, TLC

\* ---- bounds ----
MaxReq == 2

Reqs == 1..MaxReq
\* Every access to the registry and to the storage directory is keyed by the
\* paper_id of the call that makes it, so the calls of one paper are modelled:
\* paper 1 stands for that id.
Papers == {1}

\* paper_id 0 stands for an arguments object without the "paper_id" key
PaperArgs == Papers \cup {0}
\* "absent": no "format" key; "other": a string outside the schema's enum
Formats == {"auto", "html", "pdf", "absent", "other"}

VARIABLES
  conversion_statuses,  \* paper -> 0 (no key) or the id of a ConversionStatus object
  heap,                 \* the ConversionStatus objects, named after the request that made them
  md,                   \* {paper_id}.md on disk: "absent", "empty" (zero bytes), "full"
  pdf,                  \* {paper_id}.pdf on disk
  running,              \* the handler that holds the event loop, 0 when the loop is free
  pc,                   \* handler position
  arguments,            \* handler argument object
  status,               \* handler local `status` (object id, 0 when unbound)
  resp,                 \* handler response payload under construction
  did,                  \* external operations the handler has invoked so far
  ret,                  \* the call that returned in the last step, with its payload
  cpc,                  \* converter thread position
  cpaper,               \* converter parameter paper_id
  cstatus,              \* converter local `status` (object id, 0 when None / unbound)
  cerr,                 \* converter: "raised" while the except clause runs, "handled" after it
  subproc,              \* converter: subprocess.run was invoked
  cret                  \* the converter run that returned in the last step

vars == <<conversion_statuses, heap, md, pdf, running, pc, arguments, status,
          resp, did, ret, cpc, cpaper, cstatus, cerr, subproc, cret>>

hlocals == <<arguments, status, resp, did>>
hvars == <<running, pc, arguments, status, resp, did>>
cvars == <<cpc, cpaper, cstatus, cerr, subproc>>
disk == <<md, pdf>>

\* ConversionStatus dataclass: completed_at and error default to None (0).
\* A timestamp is named after the call that took it with datetime.now(), an
\* error message after the converter run whose exception it is the str() of.
ConversionStatus(st, started) ==
  [status |-> st, started_at |-> started, completed_at |-> 0, error |-> 0]

NoObject == [status |-> "none", started_at |-> 0, completed_at |-> 0, error |-> 0]

NoArgs == [paper_id |-> 0, check_status |-> FALSE, format |-> "absent"]

NoResp == [status |-> "none", message |-> "none", started_at |-> 0,
           completed_at |-> 0, error |-> 0, resource_uri |-> 0]

NoRet == [h |-> 0, arguments |-> NoArgs, resp |-> NoResp, did |-> {}]

NoCRet == [c |-> 0, paper_id |-> 0, error |-> "none", subproc |-> FALSE]

\* json payload with "status" and "message" and optionally "resource_uri"
Payload(st, msg, uri) == [NoResp EXCEPT !.status = st, !.message = msg, !.resource_uri = uri]

\* faulty variant of md_exists: a zero-byte file does not count
md_exists_nonempty(p) == md[p] = "full"

\* get_paper_path(paper_id, ".md").exists()
md_exists(p) == md[p] # "absent"

\* arguments.get("format", "auto")
fmt(a) == IF a.format = "absent" THEN "auto" ELSE a.format

\* faulty variant of check_get: the disk is consulted before the registry
check_get_disk_first(p) == IF md[p] # "absent" THEN 0 ELSE conversion_statuses[p]

\* line 140: conversion_statuses.get(paper_id), None (0) when there is no key
check_get(p) == conversion_statuses[p]

\* faulty variant of in_registry: the membership test is missing
in_registry_never(p) == FALSE

\* line 198: paper_id in conversion_statuses
in_registry(p) == conversion_statuses[p] # 0

\* faulty variant of tries_html: every format tries HTML
tries_html_always(a) == TRUE

\* line 217: if fmt in ("auto", "html")
tries_html(a) == fmt(a) \in {"auto", "html"}

\* faulty variant of html_only: format=html falls back to PDF too
html_only_never(a) == FALSE

\* faulty variant of html_only: no format falls back to PDF
html_only_always(a) == TRUE

\* lines 234 and 248: if fmt == "html"
html_only(a) == fmt(a) = "html"

\* faulty variant of popped: the finally clause is missing
popped_keep(reg, p) == reg

\* line 129: conversion_statuses.pop(paper_id, None)
popped(reg, p) == [reg EXCEPT ![p] = 0]

\* CPython frees a ConversionStatus that neither the registry nor a local names
gc(hp, reg, hs, cs) ==
  [o \in Reqs |-> IF \/ \E p \in Papers : reg[p] = o
                     \/ \E h \in Reqs : hs[h] = o
                     \/ \E c \in Reqs : cs[c] = o
                  THEN hp[o] ELSE NoObject]

Init ==
  /\ conversion_statuses = [p \in Papers |-> 0]
  /\ heap = [h \in Reqs |-> NoObject]
  /\ md \in [Papers -> {"absent", "empty", "full"}]
  /\ pdf = [p \in Papers |-> FALSE]
  /\ running = 0
  /\ pc = [h \in Reqs |-> "idle"]
  /\ arguments = [h \in Reqs |-> NoArgs]
  /\ status = [h \in Reqs |-> 0]
  /\ resp = [h \in Reqs |-> NoResp]
  /\ did = [h \in Reqs |-> {}]
  /\ ret = NoRet
  /\ cpc = [h \in Reqs |-> "none"]
  /\ cpaper = [h \in Reqs |-> 0]
  /\ cstatus = [h \in Reqs |-> 0]
  /\ cerr = [h \in Reqs |-> "none"]
  /\ subproc = [h \in Reqs |-> FALSE]
  /\ cret = NoCRet

\* `return [types.TextContent(...)]`: the handler ends, its locals die and
\* the event loop is free; `more` are the operations invoked in this step
Return(h, r, more) ==
  /\ ret' = [h |-> h, arguments |-> arguments[h], resp |-> r, did |-> did[h] \cup more]
  /\ pc' = [pc EXCEPT ![h] = "done"]
  /\ running' = 0
  /\ arguments' = [arguments EXCEPT ![h] = NoArgs]
  /\ status' = [status EXCEPT ![h] = 0]
  /\ resp' = [resp EXCEPT ![h] = NoResp]
  /\ did' = [did EXCEPT ![h] = {}]

\* a statement of the running handler that moves it to another line
Goto(h, l) ==
  /\ pc' = [pc EXCEPT ![h] = l]
  /\ running' = h
  /\ ret' = NoRet

\* faulty variant of GenericError: the exception leaves the handler, no payload
GenericError_propagates(h, more) == Return(h, NoResp, more)

\* `except Exception as e` at line 307
GenericError(h, more) == Return(h, Payload("error", "Error", 0), more)

\* faulty variant of NotFound: StopIteration is reported like any exception
NotFound_generic(h, more) == GenericError(h, more)

\* `except StopIteration` at line 295
NotFound(h, more) == Return(h, Payload("error", "Paper not found on arXiv", 0), more)

(* lines 132-140: the call of a status check (a missing paper_id raises    *)
(* KeyError) up to status = conversion_statuses.get(paper_id). Requests     *)
(* are numbered in the order in which they are dispatched                   *)
CallCheck(h, a) ==
  /\ running = 0
  /\ pc[h] = "idle"
  /\ \A g \in Reqs : g < h => pc[g] # "idle"
  /\ a.check_status
  /\ IF a.paper_id = 0
       THEN /\ ret' = [h |-> h, arguments |-> a, resp |-> Payload("error", "Error", 0), did |-> {}]
            /\ pc' = [pc EXCEPT ![h] = "done"]
            /\ running' = 0
            /\ UNCHANGED <<arguments, status>>
       ELSE /\ arguments' = [arguments EXCEPT ![h] = a]
            /\ status' = [status EXCEPT ![h] = check_get(a.paper_id)]
            /\ Goto(h, IF status'[h] = 0 THEN "L142" ELSE "L172")
  /\ cret' = NoCRet
  /\ UNCHANGED <<conversion_statuses, heap, disk, resp, did, cvars>>

\* faulty variant of CallNew: the artifact is looked for only when the paper
\* has no registry entry
CallNew_registry_first(h, a) ==
  /\ running = 0
  /\ pc[h] = "idle"
  /\ \A g \in Reqs : g < h => pc[g] # "idle"
  /\ ~a.check_status
  /\ IF a.paper_id = 0
       THEN /\ ret' = [h |-> h, arguments |-> a, resp |-> Payload("error", "Error", 0), did |-> {}]
            /\ pc' = [pc EXCEPT ![h] = "done"]
            /\ running' = 0
            /\ UNCHANGED arguments
       ELSE IF conversion_statuses[a.paper_id] = 0 /\ md_exists(a.paper_id)
         THEN /\ ret' = [h |-> h, arguments |-> a, did |-> {},
                         resp |-> Payload("success", "Paper already available", a.paper_id)]
              /\ pc' = [pc EXCEPT ![h] = "done"]
              /\ running' = 0
              /\ UNCHANGED arguments
         ELSE /\ arguments' = [arguments EXCEPT ![h] = a]
              /\ Goto(h, "L198")
  /\ cret' = NoCRet
  /\ UNCHANGED <<conversion_statuses, heap, disk, status, resp, did, cvars>>

(* lines 132-136 and 183-195: the call of a new-download request up to the  *)
(* test whether the paper is already converted                              *)
CallNew(h, a) ==
  /\ running = 0
  /\ pc[h] = "idle"
  /\ \A g \in Reqs : g < h => pc[g] # "idle"
  /\ ~a.check_status
  /\ IF a.paper_id = 0
       THEN /\ ret' = [h |-> h, arguments |-> a, resp |-> Payload("error", "Error", 0), did |-> {}]
            /\ pc' = [pc EXCEPT ![h] = "done"]
            /\ running' = 0
            /\ UNCHANGED arguments
       ELSE IF md_exists(a.paper_id)
         THEN /\ ret' = [h |-> h, arguments |-> a, did |-> {},
                         resp |-> Payload("success", "Paper already available", a.paper_id)]
              /\ pc' = [pc EXCEPT ![h] = "done"]
              /\ running' = 0
              /\ UNCHANGED arguments
         ELSE /\ arguments' = [arguments EXCEPT ![h] = a]
              /\ Goto(h, "L198")
  /\ cret' = NoCRet
  /\ UNCHANGED <<conversion_statuses, heap, disk, status, resp, did, cvars>>

(* lines 142-165: no registry entry, answer from the disk *)
CheckDisk(h) ==
  /\ running = h
  /\ pc[h] = "L142"
  /\ IF md_exists(arguments[h].paper_id)
       THEN Return(h, Payload("success", "Paper is ready", arguments[h].paper_id), {})
       ELSE Return(h, Payload("unknown", "No download or conversion in progress", 0), {})
  /\ cret' = NoCRet
  /\ UNCHANGED <<conversion_statuses, heap, disk, cvars>>

(* lines 172-173: "status": status.status, "started_at": status.started_at *)
CheckReadStatus(h) ==
  /\ running = h
  /\ pc[h] = "L172"
  /\ resp' = [resp EXCEPT ![h].status = heap[status[h]].status,
                          ![h].started_at = heap[status[h]].started_at]
  /\ Goto(h, "L174")
  /\ cret' = NoCRet
  /\ UNCHANGED <<conversion_statuses, heap, disk, arguments, status, did, cvars>>

(* line 174: "completed_at": status.completed_at *)
CheckReadCompleted(h) ==
  /\ running = h
  /\ pc[h] = "L174"
  /\ resp' = [resp EXCEPT ![h].completed_at = heap[status[h]].completed_at]
  /\ Goto(h, "L175")
  /\ cret' = NoCRet
  /\ UNCHANGED <<conversion_statuses, heap, disk, arguments, status, did, cvars>>

\* faulty variant of CheckReadError: a status check that reports a finished
\* entry removes it from the registry
CheckReadError_evicts(h) ==
  /\ running = h
  /\ pc[h] = "L175"
  /\ Return(h, [resp[h] EXCEPT !.error = heap[status[h]].error,
                               !.message = "Paper conversion"], {})
  /\ conversion_statuses' =
       IF heap[status[h]].status \in {"success", "error"}
         THEN [conversion_statuses EXCEPT ![arguments[h].paper_id] = 0]
         ELSE conversion_statuses
  /\ heap' = gc(heap, conversion_statuses', status', cstatus)
  /\ cret' = NoCRet
  /\ UNCHANGED <<disk, cvars>>

(* lines 175-180: "error": status.error, "message": f"Paper conversion {status.status}" *)
CheckReadError(h) ==
  /\ running = h
  /\ pc[h] = "L175"
  /\ Return(h, [resp[h] EXCEPT !.error = heap[status[h]].error,
                               !.message = "Paper conversion"], {})
  /\ heap' = gc(heap, conversion_statuses, status', cstatus)
  /\ cret' = NoCRet
  /\ UNCHANGED <<conversion_statuses, disk, cvars>>

\* faulty variant of NewInRegistry: the handler gives the event loop up after
\* the registry test on the PDF path too
NewInRegistry_yields(h) ==
  /\ running = h
  /\ pc[h] = "L198"
  /\ IF in_registry(arguments[h].paper_id)
       THEN /\ Goto(h, "L199")
            /\ UNCHANGED <<did>>
       ELSE /\ pc' = [pc EXCEPT ![h] = IF tries_html(arguments[h]) THEN "L220" ELSE "L263"]
            /\ running' = 0
            /\ ret' = NoRet
            /\ did' = IF tries_html(arguments[h])
                        THEN [did EXCEPT ![h] = @ \cup {"html"}] ELSE did
  /\ cret' = NoCRet
  /\ UNCHANGED <<conversion_statuses, heap, disk, arguments, status, resp, cvars>>

(* lines 198, 214-220: `paper_id in conversion_statuses`; when it is not,   *)
(* the format decides between awaiting the HTML fetch and the PDF path      *)
NewInRegistry(h) ==
  /\ running = h
  /\ pc[h] = "L198"
  /\ IF in_registry(arguments[h].paper_id)
       THEN /\ Goto(h, "L199")
            /\ UNCHANGED <<did>>
       ELSE IF tries_html(arguments[h])
         THEN /\ pc' = [pc EXCEPT ![h] = "L220"]
              /\ running' = 0
              /\ ret' = NoRet
              /\ did' = [did EXCEPT ![h] = @ \cup {"html"}]
         ELSE /\ Goto(h, "L263")
              /\ UNCHANGED <<did>>
  /\ cret' = NoCRet
  /\ UNCHANGED <<conversion_statuses, heap, disk, arguments, status, resp, cvars>>

(* line 199: status = conversion_statuses[paper_id]; KeyError when a        *)
(* converter thread popped the key after line 198                           *)
NewGet(h) ==
  /\ running = h
  /\ pc[h] = "L199"
  /\ IF conversion_statuses[arguments[h].paper_id] = 0
       THEN GenericError(h, {})
       ELSE /\ status' = [status EXCEPT ![h] = conversion_statuses[arguments[h].paper_id]]
            /\ Goto(h, "L205")
            /\ UNCHANGED <<arguments, resp, did>>
  /\ cret' = NoCRet
  /\ UNCHANGED <<conversion_statuses, heap, disk, cvars>>

(* lines 200-211: report the entry's status *)
NewReport(h) ==
  /\ running = h
  /\ pc[h] = "L205"
  /\ Return(h, [NoResp EXCEPT !.status = heap[status[h]].status,
                              !.message = "Paper conversion",
                              !.started_at = heap[status[h]].started_at], {})
  /\ heap' = gc(heap, conversion_statuses, status', cstatus)
  /\ cret' = NoCRet
  /\ UNCHANGED <<conversion_statuses, disk, cvars>>

\* faulty variant of fetch_html_as_markdown: the success branch lacks its
\* return and control runs on into the PDF path
fetch_html_no_return(h, outcome) ==
  /\ running = 0
  /\ pc[h] = "L220"
  /\ md' = IF outcome \in {"full", "empty"}
             THEN [md EXCEPT ![arguments[h].paper_id] = outcome] ELSE md
  /\ IF outcome \notin {"full", "empty"} /\ html_only(arguments[h])
       THEN Return(h, Payload("error", "HTML download failed", 0), {})
       ELSE Goto(h, "L263") /\ UNCHANGED hlocals
  /\ cret' = NoCRet
  /\ UNCHANGED <<conversion_statuses, heap, pdf, cvars>>

(* lines 71-87 and 220-260: the awaited fetch_html_as_markdown completes and *)
(* the handler resumes. outcome: "full"/"empty" = 2xx and the Markdown (of   *)
(* that size) is written; "http" = raise_for_status raised HTTPStatusError;  *)
(* "other" = any other exception (network error, timeout, write failure)     *)
fetch_html_as_markdown(h, outcome) ==
  /\ running = 0
  /\ pc[h] = "L220"
  /\ LET p == arguments[h].paper_id IN
       IF outcome \in {"full", "empty"}
         THEN /\ md' = [md EXCEPT ![p] = outcome]
              /\ Return(h, Payload("success", "Paper downloaded from HTML", p), {})
         ELSE /\ md' = md
              /\ IF html_only(arguments[h])
                   THEN Return(h, Payload("error",
                                 IF outcome = "http"
                                   THEN "HTML version not available (HTTP code)"
                                   ELSE "HTML download failed", 0), {})
                   ELSE Goto(h, "L263") /\ UNCHANGED hlocals
  /\ cret' = NoCRet
  /\ UNCHANGED <<conversion_statuses, heap, pdf, cvars>>

\* faulty variant of PdfInsert (for this program's race): the insert is
\* guarded by a second membership test and the request gives up when the
\* paper has an entry by now
PdfInsert_guarded(h, ok) ==
  /\ running = h
  /\ pc[h] = "L263"
  /\ IF ok /\ conversion_statuses[arguments[h].paper_id] = 0
       THEN /\ conversion_statuses' = [conversion_statuses EXCEPT ![arguments[h].paper_id] = h]
            /\ heap' = gc([heap EXCEPT ![h] = ConversionStatus("downloading", h)],
                          conversion_statuses', status, cstatus)
            /\ did' = [did EXCEPT ![h] = @ \cup {"insert"}]
            /\ Goto(h, "L272")
            /\ UNCHANGED <<arguments, status, resp>>
       ELSE /\ GenericError(h, {})
            /\ UNCHANGED <<conversion_statuses, heap>>
  /\ cret' = NoCRet
  /\ UNCHANGED <<disk, cvars>>

(* lines 263-269: import arxiv; get_paper_path; get_arxiv_client() -- an   *)
(* exception there (ok = FALSE) is reported at line 307 -- and then         *)
(* conversion_statuses[paper_id] = ConversionStatus(..., "downloading", now) *)
PdfInsert(h, ok) ==
  /\ running = h
  /\ pc[h] = "L263"
  /\ IF ok
       THEN /\ conversion_statuses' = [conversion_statuses EXCEPT ![arguments[h].paper_id] = h]
            /\ heap' = gc([heap EXCEPT ![h] = ConversionStatus("downloading", h)],
                          conversion_statuses', status, cstatus)
            /\ did' = [did EXCEPT ![h] = @ \cup {"insert"}]
            /\ Goto(h, "L272")
            /\ UNCHANGED <<arguments, status, resp>>
       ELSE /\ GenericError(h, {})
            /\ UNCHANGED <<conversion_statuses, heap>>
  /\ cret' = NoCRet
  /\ UNCHANGED <<disk, cvars>>

(* line 272: paper = next(client.results(arxiv.Search(id_list=[paper_id]))) *)
(* line 273: paper.download_pdf(dirpath=..., filename=...)                  *)
(* "empty": the search yields nothing, StopIteration is handled at line 295; *)
(* "raise": the search raises; "nopdf": download_pdf raises; "ok": the PDF   *)
(* is on disk                                                                *)
PdfFetch(h, outcome) ==
  /\ running = h
  /\ pc[h] = "L272"
  /\ CASE outcome = "ok" -> /\ pdf' = [pdf EXCEPT ![arguments[h].paper_id] = TRUE]
                            /\ Goto(h, "L276")
                            /\ did' = [did EXCEPT ![h] = @ \cup {"search", "pdf"}]
                            /\ UNCHANGED <<arguments, status, resp>>
       [] outcome = "empty" -> /\ pdf' = pdf
                               /\ NotFound(h, {"search"})
       [] outcome = "raise" -> /\ pdf' = pdf
                               /\ GenericError(h, {"search"})
       [] OTHER -> /\ pdf' = pdf
                   /\ GenericError(h, {"search", "pdf"})
  /\ cret' = NoCRet
  /\ UNCHANGED <<conversion_statuses, heap, md, cvars>>

(* line 276: status = conversion_statuses[paper_id]; KeyError when a        *)
(* converter thread of the same paper popped the key since line 269         *)
PdfGet(h) ==
  /\ running = h
  /\ pc[h] = "L276"
  /\ IF conversion_statuses[arguments[h].paper_id] = 0
       THEN GenericError(h, {})
       ELSE /\ status' = [status EXCEPT ![h] = conversion_statuses[arguments[h].paper_id]]
            /\ Goto(h, "L277")
            /\ UNCHANGED <<arguments, resp, did>>
  /\ cret' = NoCRet
  /\ UNCHANGED <<conversion_statuses, heap, disk, cvars>>

(* lines 277-293: status.status = "converting";                             *)
(* asyncio.create_task(asyncio.to_thread(convert_pdf_to_markdown, paper_id, *)
(* pdf_path)) and the "converting" reply                                    *)
PdfSchedule(h) ==
  /\ running = h
  /\ pc[h] = "L277"
  /\ cpc' = [cpc EXCEPT ![h] = "scheduled"]
  /\ cpaper' = [cpaper EXCEPT ![h] = arguments[h].paper_id]
  /\ Return(h, [NoResp EXCEPT !.status = "converting",
                              !.message = "Paper downloaded, conversion started",
                              !.started_at = heap[status[h]].started_at], {"conv"})
  /\ heap' = gc([heap EXCEPT ![status[h]].status = "converting"],
                conversion_statuses, status', cstatus)
  /\ cret' = NoCRet
  /\ UNCHANGED <<conversion_statuses, disk, cstatus, cerr, subproc>>

\* ---- convert_pdf_to_markdown, run by the worker thread of request c ----

\* a statement of the converter thread that moves it to another line
CGoto(c, l) ==
  /\ cpc' = [cpc EXCEPT ![c] = l]
  /\ cret' = NoCRet
  /\ ret' = NoRet

\* faulty variant of CRaise: the exception leaves the converter, no cleanup
CRaise_unhandled(c) ==
  /\ cerr' = [cerr EXCEPT ![c] = "raised"]
  /\ CGoto(c, "finished")

\* `raise`/exception inside the try block: control goes to line 121 with
\* `e` bound to the exception
CRaise(c) ==
  /\ cerr' = [cerr EXCEPT ![c] = "raised"]
  /\ CGoto(c, "L123")

(* the event loop runs the task and to_thread hands the call to a worker    *)
(* thread; lines 93-100: unpdf = shutil.which("unpdf"); when it is found    *)
(* subprocess.run starts the unpdf process                                  *)
to_thread(c, found) ==
  /\ running = 0
  /\ cpc[c] = "scheduled"
  /\ IF found THEN /\ CGoto(c, "L100")
                   /\ subproc' = [subproc EXCEPT ![c] = TRUE]
                   /\ UNCHANGED <<cerr>>
              ELSE /\ CRaise(c)
                   /\ UNCHANGED <<subproc>>
  /\ UNCHANGED <<conversion_statuses, heap, disk, hvars, cpaper, cstatus>>

(* the running unpdf process creates, truncates or writes its -o file *)
UnpdfWrite(c, size) ==
  /\ cpc[c] = "L100"
  /\ md[cpaper[c]] # size
  /\ md' = [md EXCEPT ![cpaper[c]] = size]
  /\ ret' = NoRet
  /\ cret' = NoCRet
  /\ UNCHANGED <<conversion_statuses, heap, pdf, hvars, cvars>>

\* faulty variant of ConvRunEnd: the output's size is not tested
ConvRunEnd_no_size_test(c, outcome) ==
  /\ cpc[c] = "L100"
  /\ IF outcome = "zero" /\ md[cpaper[c]] # "absent"
       THEN CGoto(c, "L113") /\ UNCHANGED <<cerr>>
       ELSE CRaise(c)
  /\ UNCHANGED <<conversion_statuses, heap, disk, hvars, cpaper, cstatus, subproc>>

(* lines 100-111: subprocess.run returns or raises TimeoutExpired; a zero   *)
(* exit code is followed by                                                 *)
(* `if not md_path.exists() or md_path.stat().st_size == 0`                 *)
ConvRunEnd(c, outcome) ==
  /\ cpc[c] = "L100"
  /\ CASE outcome = "zero" -> IF md[cpaper[c]] = "full"
                                THEN CGoto(c, "L113") /\ UNCHANGED <<cerr>>
                                ELSE CRaise(c)
       [] outcome = "nonzero" -> CRaise(c)
       [] OTHER -> CRaise(c)
  /\ UNCHANGED <<conversion_statuses, heap, disk, hvars, cpaper, cstatus, subproc>>

(* lines 113-114 and 123-124: status = conversion_statuses.get(paper_id); if status: *)
(* (the except clause ends when there is no status, and `e` is unbound then) *)
ConvGet(c) ==
  /\ cpc[c] \in {"L113", "L123"}
  /\ cstatus' = [cstatus EXCEPT ![c] = conversion_statuses[cpaper[c]]]
  /\ CGoto(c, IF cpc[c] = "L113"
                THEN (IF cstatus'[c] # 0 THEN "L115" ELSE "L118")
                ELSE (IF cstatus'[c] # 0 THEN "L125" ELSE "L129"))
  /\ cerr' = IF cpc[c] = "L123" /\ cstatus'[c] = 0
               THEN [cerr EXCEPT ![c] = "handled"] ELSE cerr
  /\ UNCHANGED <<conversion_statuses, heap, disk, hvars, cpaper, subproc>>

(* lines 115 and 125: status.status = "success" / "error" *)
ConvSetStatus(c) ==
  /\ cpc[c] \in {"L115", "L125"}
  /\ heap' = [heap EXCEPT ![cstatus[c]].status =
                 IF cpc[c] = "L115" THEN "success" ELSE "error"]
  /\ CGoto(c, IF cpc[c] = "L115" THEN "L116" ELSE "L126")
  /\ UNCHANGED <<conversion_statuses, disk, hvars, cpaper, cstatus, cerr, subproc>>

(* lines 116 and 126: status.completed_at = datetime.now(); after line 116 *)
(* the local `status` is not read again before it is rebound               *)
ConvSetCompleted(c) ==
  /\ cpc[c] \in {"L116", "L126"}
  /\ cstatus' = IF cpc[c] = "L116" THEN [cstatus EXCEPT ![c] = 0] ELSE cstatus
  /\ heap' = gc([heap EXCEPT ![cstatus[c]].completed_at = c],
                conversion_statuses, status, cstatus')
  /\ CGoto(c, IF cpc[c] = "L116" THEN "L118" ELSE "L127")
  /\ UNCHANGED <<conversion_statuses, disk, hvars, cpaper, cerr, subproc>>

\* faulty variant of ConvSetError: the message is not recorded
ConvSetError_skip(c) ==
  /\ cpc[c] = "L127"
  /\ cstatus' = [cstatus EXCEPT ![c] = 0]
  /\ heap' = gc(heap, conversion_statuses, status, cstatus')
  /\ cerr' = [cerr EXCEPT ![c] = "handled"]
  /\ CGoto(c, "L129")
  /\ UNCHANGED <<conversion_statuses, disk, hvars, cpaper, subproc>>

(* line 127: status.error = str(e); the except clause ends, `e` is unbound *)
(* and the local `status` is not read again                                 *)
ConvSetError(c) ==
  /\ cpc[c] = "L127"
  /\ cstatus' = [cstatus EXCEPT ![c] = 0]
  /\ heap' = gc([heap EXCEPT ![cstatus[c]].error = c],
                conversion_statuses, status, cstatus')
  /\ cerr' = [cerr EXCEPT ![c] = "handled"]
  /\ CGoto(c, "L129")
  /\ UNCHANGED <<conversion_statuses, disk, hvars, cpaper, subproc>>

(* lines 118-119: pdf_path.unlink(missing_ok=True); an OSError is caught at line 121 *)
ConvUnlink(c, ok) ==
  /\ cpc[c] = "L118"
  /\ IF ok
       THEN /\ pdf' = [pdf EXCEPT ![cpaper[c]] = FALSE]
            /\ CGoto(c, "L129")
            /\ UNCHANGED <<cerr>>
       ELSE /\ pdf' = pdf
            /\ CRaise(c)
  /\ UNCHANGED <<conversion_statuses, heap, md, hvars, cpaper, cstatus, subproc>>

(* lines 128-129: finally: conversion_statuses.pop(paper_id, None); the     *)
(* function returns None and its locals die                                 *)
ConvPop(c) ==
  /\ cpc[c] = "L129"
  /\ conversion_statuses' = popped(conversion_statuses, cpaper[c])
  /\ cpc' = [cpc EXCEPT ![c] = "finished"]
  /\ cret' = [c |-> c, paper_id |-> cpaper[c], error |-> cerr[c], subproc |-> subproc[c]]
  /\ ret' = NoRet
  /\ cpaper' = [cpaper EXCEPT ![c] = 0]
  /\ cstatus' = [cstatus EXCEPT ![c] = 0]
  /\ cerr' = [cerr EXCEPT ![c] = "none"]
  /\ subproc' = [subproc EXCEPT ![c] = FALSE]
  /\ heap' = gc(heap, conversion_statuses', status, cstatus')
  /\ UNCHANGED <<disk, hvars>>

handle_download ==
  \/ \E h \in Reqs, p \in PaperArgs, f \in Formats :
        CallCheck(h, [paper_id |-> p, check_status |-> TRUE, format |-> f])
  \/ \E h \in Reqs, p \in PaperArgs, f \in Formats :
        CallNew(h, [paper_id |-> p, check_status |-> FALSE, format |-> f])
  \/ \E h \in Reqs : CheckDisk(h)
  \/ \E h \in Reqs : CheckReadStatus(h)
  \/ \E h \in Reqs : CheckReadCompleted(h)
  \/ \E h \in Reqs : CheckReadError(h)
  \/ \E h \in Reqs : NewInRegistry(h)
  \/ \E h \in Reqs : NewGet(h)
  \/ \E h \in Reqs : NewReport(h)
  \/ \E h \in Reqs, o \in {"full", "empty", "http", "other"} : fetch_html_as_markdown(h, o)
  \/ \E h \in Reqs, ok \in BOOLEAN : PdfInsert(h, ok)
  \/ \E h \in Reqs, o \in {"ok", "empty", "raise", "nopdf"} : PdfFetch(h, o)
  \/ \E h \in Reqs : PdfGet(h)
  \/ \E h \in Reqs : PdfSchedule(h)

convert_pdf_to_markdown ==
  \/ \E c \in Reqs, found \in BOOLEAN : to_thread(c, found)
  \/ \E c \in Reqs, size \in {"empty", "full"} : UnpdfWrite(c, size)
  \/ \E c \in Reqs, o \in {"zero", "nonzero", "timeout"} : ConvRunEnd(c, o)
  \/ \E c \in Reqs : ConvGet(c)
  \/ \E c \in Reqs : ConvSetStatus(c)
  \/ \E c \in Reqs : ConvSetCompleted(c)
  \/ \E c \in Reqs : ConvSetError(c)
  \/ \E c \in Reqs, ok \in BOOLEAN : ConvUnlink(c, ok)
  \/ \E c \in Reqs : ConvPop(c)

Next == handle_download \/ convert_pdf_to_markdown

Spec == Init /\ [][Next]_vars

\* a step of a dispatched handler h: the statement it is at, or the completion
\* of the fetch it awaits (httpx.AsyncClient(timeout=60.0), line 76)
handler_step(h) ==
  \/ CheckDisk(h) \/ CheckReadStatus(h) \/ CheckReadCompleted(h) \/ CheckReadError(h)
  \/ NewInRegistry(h) \/ NewGet(h) \/ NewReport(h)
  \/ \E o \in {"full", "empty", "http", "other"} : fetch_html_as_markdown(h, o)
  \/ \E ok \in BOOLEAN : PdfInsert(h, ok)
  \/ \E o \in {"ok", "empty", "raise", "nopdf"} : PdfFetch(h, o)
  \/ PdfGet(h) \/ PdfSchedule(h)

\* a step of the converter run c that moves it on: the task is started, the
\* subprocess ends (subprocess.run(..., timeout=120), line 104) or a statement
\* of lines 113-129 is executed
thread_step(c) ==
  \/ \E found \in BOOLEAN : to_thread(c, found)
  \/ \E o \in {"zero", "nonzero", "timeout"} : ConvRunEnd(c, o)
  \/ ConvGet(c) \/ ConvSetStatus(c) \/ ConvSetCompleted(c) \/ ConvSetError(c)
  \/ \E ok \in BOOLEAN : ConvUnlink(c, ok)
  \/ ConvPop(c)

\* The event loop runs every ready handler and task, every awaited fetch
\* and every subprocess ends, the worker threads are scheduled. Requests are
\* dispatched when the client sends them: no fairness on CallCheck / CallNew.
FairSpec ==
  /\ Spec
  /\ \A h \in Reqs : WF_vars(handler_step(h))
  /\ \A c \in Reqs : WF_vars(thread_step(c))

\* lines 138-180: the status a check_status request for paper p dispatched in
\* this state reads: the entry's, else success from the disk, else unknown
check_status_answer(p) ==
  IF conversion_statuses[p] # 0
    THEN heap[conversion_statuses[p]].status
    ELSE IF md_exists(p) THEN "success" ELSE "unknown"

\* ---- vocabulary of the properties ----

Statuses == {"success", "error", "unknown", "downloading", "converting"}
PdfOps == {"insert", "search", "pdf", "conv"}
PdfLines == {"L263", "L272", "L276", "L277"}

\* the step is the dispatch of request h / a statement of h at line l
Calls(h) == pc[h] = "idle" /\ pc'[h] # "idle"
CallArgs(h) == IF ret'.h = h THEN ret'.arguments ELSE arguments'[h]
Moves(h, l) == pc[h] = l /\ pc'[h] # l
IsAuto(a) == a.format \in {"auto", "absent"}

\* ---- C1 ----
\* C1: every call of handle_download that ends, whatever its arguments and
\* whatever failed on its way (missing paper_id, HTML fetch, arXiv search,
\* PDF download, registry lookup), ends by returning a payload whose status
\* is success, error, unknown, downloading or converting, with a message.
C1_NeverRaises ==
  ret.h # 0 => ret.resp.status \in Statuses /\ ret.resp.message # "none"

\* a call that failed after it had asked for the PDF returned an error payload
C1_Witness ==
  ret.h # 0 /\ ret.resp.status = "error" /\ "pdf" \in ret.did

\* ---- C2 ----
\* C2: a new-download request (any format) dispatched while {paper_id}.md
\* exists returns success with the artifact's resource_uri at once, has
\* invoked no HTML fetch, PDF download or converter, and leaves the registry,
\* its objects, the disk and the converters as they were; this holds for
\* every such request, however many came before.
C2_Idempotence ==
  [][\A h \in Reqs :
       (/\ Calls(h)
        /\ ~CallArgs(h).check_status
        /\ CallArgs(h).paper_id # 0
        /\ md[CallArgs(h).paper_id] # "absent")
       => /\ ret'.h = h
          /\ ret'.resp.status = "success"
          /\ ret'.resp.resource_uri = CallArgs(h).paper_id
          /\ ret'.did = {}
          /\ UNCHANGED <<conversion_statuses, heap, md, pdf, cpc>>]_vars

\* a request after the first one was answered from the existing artifact
C2_Witness ==
  /\ ret.h > 1
  /\ ~ret.arguments.check_status
  /\ ret.resp.message = "Paper already available"
  /\ ret.did = {}

C4_FormatHtml ==
  [][\A h \in Reqs :
       /\ arguments'[h].format = "html"
          => /\ did'[h] \subseteq {"html"}
             /\ pc'[h] \notin PdfLines
             /\ cpc'[h] = "none"
             /\ heap'[h] = NoObject
       /\ (ret'.h = h /\ ret'.arguments.format = "html")
          => /\ ret'.did \subseteq {"html"}
             /\ cpc'[h] = "none"
             /\ heap'[h] = NoObject
       /\ (arguments[h].format = "html" /\ fetch_html_as_markdown(h, "http"))
          => /\ ret'.h = h
             /\ ret'.resp.status = "error"
             /\ ret'.resp.message = "HTML version not available (HTTP code)"
       /\ (arguments[h].format = "html" /\ fetch_html_as_markdown(h, "other"))
          => /\ ret'.h = h
             /\ ret'.resp.status = "error"]_vars

\* a format=html request got an HTTP status failure and reported it
C4_Witness ==
  /\ ret.h # 0
  /\ ret.arguments.format = "html"
  /\ ret.resp.status = "error"
  /\ ret.resp.message = "HTML version not available (HTTP code)"

\* ---- C5 ----
\* C5: a request with format=pdf never invokes the HTML fetcher: it is never
\* suspended at the fetch, and when the paper has neither artifact nor
\* registry entry it goes from the registry test straight to the PDF path.
C5_FormatPdf ==
  [][\A h \in Reqs :
       /\ arguments'[h].format = "pdf"
          => "html" \notin did'[h] /\ pc'[h] # "L220"
       /\ (ret'.h = h /\ ret'.arguments.format = "pdf")
          => "html" \notin ret'.did
       /\ (/\ Moves(h, "L198")
           /\ arguments[h].format = "pdf"
           /\ conversion_statuses[arguments[h].paper_id] = 0)
          => pc'[h] = "L263"]_vars

\* a format=pdf request went through the whole PDF path
C5_Witness ==
  /\ ret.h # 0
  /\ ret.arguments.format = "pdf"
  /\ ret.resp.status = "converting"
  /\ ret.did = PdfOps

\* ---- C6 ----
\* C6: a new request with format=auto or without a format, for a paper with
\* no artifact and no registry entry, invokes the HTML fetch before any PDF
\* activity; a successful fetch ends the request with success and without
\* PDF activity; a failed fetch (HTTP status error or any other exception)
\* sends the request on to the PDF path and is not reported as an error.
C6_FormatAuto ==
  [][\A h \in Reqs :
       /\ (/\ Moves(h, "L198")
           /\ IsAuto(arguments[h])
           /\ conversion_statuses[arguments[h].paper_id] = 0)
          => /\ pc'[h] = "L220"
             /\ did'[h] = {"html"}
             /\ UNCHANGED <<conversion_statuses, pdf, cpc>>
       /\ (/\ IsAuto(arguments'[h])
           /\ (pc'[h] \in PdfLines \/ did'[h] \cap PdfOps # {}))
          => "html" \in did'[h]
       /\ (ret'.h = h /\ IsAuto(ret'.arguments) /\ ret'.did \cap PdfOps # {})
          => "html" \in ret'.did
       /\ (/\ IsAuto(arguments[h])
           /\ (fetch_html_as_markdown(h, "full") \/ fetch_html_as_markdown(h, "empty")))
          => /\ ret'.h = h
             /\ ret'.resp.status = "success"
             /\ ret'.did = {"html"}
             /\ UNCHANGED <<conversion_statuses, pdf, cpc>>
       /\ (/\ IsAuto(arguments[h])
           /\ (fetch_html_as_markdown(h, "http") \/ fetch_html_as_markdown(h, "other")))
          => /\ pc'[h] = "L263"
             /\ ret' = NoRet]_vars

\* a request without a format fell back from a failed HTML fetch to the PDF
\* path and scheduled the converter
C6_Witness ==
  /\ ret.h # 0
  /\ ret.arguments.format = "absent"
  /\ ret.resp.status = "converting"
  /\ ret.did = {"html"} \cup PdfOps

\* ---- C7 ----
\* C7: a converter run ends only by returning through the finally clause,
\* and in the state it leaves, whether it succeeded or failed, its paper_id
\* is no key of the registry; a check_status request dispatched in that state
\* finds no entry and answers from the disk: success when the artifact
\* exists, unknown otherwise, with no field of a registry entry.
C7_Cleanup ==
  [][/\ \A c \in Reqs :
          (cpc[c] # "finished" /\ cpc'[c] = "finished")
          => /\ cret'.c = c
             /\ cret'.paper_id = cpaper[c]
             /\ conversion_statuses'[cpaper[c]] = 0
     /\ \A h \in Reqs :
          /\ (/\ cret.c # 0
              /\ Calls(h)
              /\ CallArgs(h).check_status
              /\ CallArgs(h).paper_id = cret.paper_id)
             => /\ pc'[h] = "L142"
                /\ status'[h] = 0
          /\ Moves(h, "L142")
             => /\ ret'.h = h
                /\ ret'.resp.status =
                     IF md[arguments[h].paper_id] # "absent" THEN "success" ELSE "unknown"
                /\ ret'.resp.started_at = 0
                /\ ret'.resp.completed_at = 0
                /\ ret'.resp.error = 0]_vars

\* a status check made after a converter run had ended was answered from the disk
C7_Witness ==
  /\ ret.h # 0
  /\ ret.arguments.check_status
  /\ ret.resp.message \in {"Paper is ready", "No download or conversion in progress"}
  /\ \E c \in Reqs : cpc[c] = "finished"
  /\ \A c \in Reqs : cpc[c] \in {"none", "finished"}

\* ---- C8 ----
\* C8: when a converter run has completed successfully (binary found, exit
\* code 0, output present and non-empty, nothing raised), in the state it
\* returns to the source PDF is gone and the Markdown artifact is non-empty.
C8_SuccessSideEffect ==
  (cret.c # 0 /\ cret.error = "none")
  => ~pdf[cret.paper_id] /\ md[cret.paper_id] = "full"

\* ---- C9 ----
\* C9: a converter run that finds no unpdf executable never invokes the
\* subprocess and never writes the Markdown artifact: it goes to the except
\* clause, then (with or without a registry entry) to the finally clause,
\* and returns with the exception handled and its paper_id no key of the
\* registry.
C9_MissingBinary ==
  [][\A c \in Reqs :
       /\ to_thread(c, FALSE)
          => /\ cpc'[c] = "L123"
             /\ ~subproc'[c]
             /\ md' = md
       /\ (~subproc[c] /\ cpc[c] \notin {"none", "scheduled", "finished"})
          => cpc[c] \in {"L123", "L125", "L126", "L127", "L129"}
       /\ (/\ ~subproc[c]
           /\ cpc[c] \notin {"none", "scheduled", "finished"}
           /\ cpc'[c] # cpc[c])
          => /\ md' = md
             /\ ~subproc'[c]
             /\ cpc'[c] \in {"L125", "L126", "L127", "L129", "finished"}
       /\ (~subproc[c] /\ cpc[c] # "finished" /\ cpc'[c] = "finished")
          => /\ cret'.c = c
             /\ cret'.error = "handled"
             /\ ~cret'.subproc
             /\ conversion_statuses'[cpaper[c]] = 0]_vars

\* a converter run without the binary has returned and there is no artifact
C9_Witness ==
  /\ cret.c # 0
  /\ ~cret.subproc
  /\ cret.error = "handled"
  /\ md[cret.paper_id] = "absent"
  /\ conversion_statuses[cret.paper_id] = 0

\* ---- C10 ----
\* C10: a check_status request reads the registry first: with an entry it
\* reports the entry's status, started_at, completed_at and error as it reads
\* them from that entry; without an entry it reports success when the
\* Markdown artifact exists and unknown when it does not.
C10_CheckStatus ==
  [][\A h \in Reqs :
       /\ (Calls(h) /\ CallArgs(h).check_status /\ CallArgs(h).paper_id # 0)
          => IF conversion_statuses[CallArgs(h).paper_id] # 0
               THEN /\ pc'[h] = "L172"
                    /\ status'[h] = conversion_statuses[CallArgs(h).paper_id]
               ELSE pc'[h] = "L142"
       /\ Moves(h, "L142")
          => /\ ret'.h = h
             /\ IF md[arguments[h].paper_id] # "absent"
                  THEN /\ ret'.resp.status = "success"
                       /\ ret'.resp.resource_uri = arguments[h].paper_id
                  ELSE ret'.resp.status = "unknown"
       /\ Moves(h, "L172")
          => /\ pc'[h] = "L174"
             /\ resp'[h].status = heap[status[h]].status
             /\ resp'[h].started_at = heap[status[h]].started_at
       /\ Moves(h, "L174")
          => /\ pc'[h] = "L175"
             /\ resp'[h].status = resp[h].status
             /\ resp'[h].started_at = resp[h].started_at
             /\ resp'[h].completed_at = heap[status[h]].completed_at
       /\ Moves(h, "L175")
          => /\ ret'.h = h
             /\ ret'.resp.status = resp[h].status
             /\ ret'.resp.started_at = resp[h].started_at
             /\ ret'.resp.completed_at = resp[h].completed_at
             /\ ret'.resp.error = heap[status[h]].error
             /\ ret'.resp.message = "Paper conversion"]_vars

\* a status check reported the registry entry although the artifact exists
C10_Witness ==
  /\ ret.h # 0
  /\ ret.arguments.check_status
  /\ ret.resp.message = "Paper conversion"
  /\ ret.resp.status = "converting"
  /\ md[ret.arguments.paper_id] # "absent"

\* ---- C11 ----
\* C11: when the HTML fetch of a request (format auto, absent or html)
\* succeeds, the request returns success at once with the resource_uri of
\* {paper_id}.md, which then exists; the step leaves the registry, its
\* objects, the PDF and the converters unchanged, and a request on the HTML
\* path (up to and including the fetch) has created no registry entry.
C11_HtmlSuccess ==
  [][\A h \in Reqs :
       /\ (fetch_html_as_markdown(h, "full") \/ fetch_html_as_markdown(h, "empty"))
          => /\ ret'.h = h
             /\ ret'.resp.status = "success"
             /\ ret'.resp.resource_uri = arguments[h].paper_id
             /\ md'[arguments[h].paper_id] # "absent"
             /\ ret'.did = {"html"}
             /\ heap'[h] = NoObject
             /\ UNCHANGED <<conversion_statuses, heap, pdf, cpc>>
       /\ (Moves(h, "L198") /\ pc'[h] = "L220")
          => UNCHANGED <<conversion_statuses, heap, md, pdf, cpc>>
       /\ pc'[h] = "L220"
          => /\ heap'[h] = NoObject
             /\ did'[h] = {"html"}]_vars

\* a format=html request was served from HTML and the paper has no registry entry
C11_Witness ==
  /\ ret.h # 0
  /\ ret.arguments.format = "html"
  /\ ret.resp.message = "Paper downloaded from HTML"
  /\ ret.resp.status = "success"
  /\ conversion_statuses[ret.arguments.paper_id] = 0

\* ---- C12 ----
\* C12: when the arXiv search of a request on the PDF path yields nothing,
\* the request returns error with the not-found message, downloads no PDF
\* and schedules no converter.
C12_NotFound ==
  [][\A h \in Reqs :
       PdfFetch(h, "empty")
       => /\ ret'.h = h
          /\ ret'.resp.status = "error"
          /\ ret'.resp.message = "Paper not found on arXiv"
          /\ "search" \in ret'.did
          /\ "pdf" \notin ret'.did
          /\ "conv" \notin ret'.did
          /\ cpc'[h] = "none"
          /\ UNCHANGED <<pdf, md, cpc>>]_vars

\* a request that had inserted its entry was told that the paper is not on arXiv
C12_Witness ==
  /\ ret.h # 0
  /\ ret.resp.status = "error"
  /\ ret.resp.message = "Paper not found on arXiv"
  /\ ret.did \cap PdfOps = {"insert", "search"}

\* ---- C13 ----
\* C13: once a converter run (started by a request that was answered
\* converting) has completed successfully for a paper, then from some point
\* on every check_status request for that paper is answered success.
C13_PollingLiveness ==
  \A p \in Papers :
    []((cret.c # 0 /\ cret.error = "none" /\ cret.paper_id = p)
       => <>[](check_status_answer(p) = "success"))

\* ---- C14 ----
\* C14: every entry that a request puts into the registry is eventually
\* no longer there, in every execution in which handlers and converter runs
\* make progress.
C14_TransientLease ==
  \A p \in Papers, o \in Reqs :
    (conversion_statuses[p] = o) ~> (conversion_statuses[p] # o)

\* ---- C15 ----
\* the status of paper p as the registry reg with objects hp shows it
Observed(reg, hp, p) == IF reg[p] = 0 THEN "absent" ELSE hp[reg[p]].status

StatusOrder ==
  { <<"absent", "downloading">>, <<"downloading", "converting">>,
    <<"converting", "success">>, <<"converting", "error">>,
    <<"success", "absent">>, <<"error", "absent">> }

\* C15: per paper_id, every change of the status the registry shows is a
\* step of absent -> downloading -> converting -> {success | error}, or
\* the removal of an entry that is success or error: nothing goes backwards,
\* success never becomes error nor error success.
C15_StatusMonotone ==
  [][\A p \in Papers :
       Observed(conversion_statuses, heap, p) # Observed(conversion_statuses', heap', p)
       => <<Observed(conversion_statuses, heap, p),
            Observed(conversion_statuses', heap', p)>> \in StatusOrder]_vars

\* ---- C16 ----
\* C16: in every reachable state every status record has completed_at
\* unset while its status is downloading or converting and set when it is
\* success or error, and has an error message exactly when its status is
\* error; and no statement writes completed_at of a record that has it set.
C16_RecordInvariant ==
  [][/\ \A o \in Reqs :
          heap'[o].status # "none"
          => /\ heap'[o].status \in {"downloading", "converting"} => heap'[o].completed_at = 0
             /\ heap'[o].status \in {"success", "error"} => heap'[o].completed_at # 0
             /\ heap'[o].error # 0 <=> heap'[o].status = "error"
     /\ \A c \in Reqs :
          (cpc[c] \in {"L116", "L126"} /\ cpc'[c] # cpc[c])
          => heap[cstatus[c]].completed_at = 0]_vars

\* ---- C17 ----
\* C17: the registry test and the insert are not one step: a request that
\* has passed the test (it is about to run line 263) can insert its own
\* entry whatever the registry and the disk hold by then, so two first-time
\* requests for one paper that both passed the test before either inserted
\* both download the PDF and both start a converter run.
C17_CheckThenInsertRace ==
  \A h \in Reqs :
    pc[h] = "L263"
    => ENABLED (/\ PdfInsert(h, TRUE)
                /\ conversion_statuses'[arguments[h].paper_id] = h
                /\ pc'[h] = "L272")

\* the second of two requests for one paper has downloaded the PDF and
\* scheduled its converter while the converter run of the first is under way
C17_Witness ==
  /\ ret.h # 0
  /\ PdfOps \subseteq ret.did
  /\ cpc[ret.h] = "scheduled"
  /\ \E c \in Reqs \ {ret.h} :
       /\ cpc[c] \notin {"none", "finished"}
       /\ cpaper[c] = ret.arguments.paper_id

\* ---- C18 ----
\* C18: on the PDF path the request creates its entry in state downloading
\* before it searches or downloads; the entry is set to converting only
\* after the download returned; the converter is scheduled in the step that
\* leaves the entry converting; and a request whose download succeeded goes
\* on to schedule exactly one converter run and to reply converting with the
\* entry's started_at, in the same uninterrupted run of the handler.
C18_PdfProtocol ==
  [][\A h \in Reqs :
       /\ PdfInsert(h, TRUE)
          => /\ conversion_statuses'[arguments[h].paper_id] = h
             /\ heap'[h] = ConversionStatus("downloading", h)
             /\ did[h] \cap PdfOps = {}
       /\ Moves(h, "L272") => "insert" \in did[h]
       /\ PdfFetch(h, "ok") => pc'[h] = "L276" /\ running' = h
       /\ Moves(h, "L276")
          => /\ "pdf" \in did[h]
             /\ pc'[h] = "L277"
             /\ running' = h
             /\ status'[h] = conversion_statuses[arguments[h].paper_id]
       /\ Moves(h, "L277")
          => /\ "pdf" \in did[h]
             /\ "conv" \notin did[h]
             /\ conversion_statuses'[arguments[h].paper_id] = status[h]
             /\ heap'[status[h]].status = "converting"
             /\ cpc[h] = "none" /\ cpc'[h] = "scheduled"
             /\ cpaper'[h] = arguments[h].paper_id
             /\ ret'.h = h
             /\ ret'.resp.status = "converting"
             /\ ret'.resp.started_at = heap[status[h]].started_at
       /\ (cpc[h] = "none" /\ cpc'[h] # "none") => Moves(h, "L277")]_vars

\* ---- C19 ----
\* C19: every failure of a converter run (no binary, subprocess timeout,
\* non-zero exit code, missing or zero-byte output after exit code 0, failure
\* of the PDF unlink) takes the run to its except clause; there, if the paper
\* has a status record, the run writes status error, a completion timestamp
\* and the message on it; the run then returns normally, never with the
\* exception unhandled.
C19_ConverterNeverRaises ==
  [][\A c \in Reqs :
       /\ (\/ to_thread(c, FALSE)
           \/ ConvRunEnd(c, "timeout")
           \/ ConvRunEnd(c, "nonzero")
           \/ (ConvRunEnd(c, "zero") /\ md[cpaper[c]] # "full")
           \/ ConvUnlink(c, FALSE))
          => cpc'[c] = "L123" /\ cerr'[c] = "raised"
       /\ (cpc[c] = "L123" /\ cpc'[c] # "L123")
          => IF conversion_statuses[cpaper[c]] # 0
               THEN /\ cpc'[c] = "L125"
                    /\ cstatus'[c] = conversion_statuses[cpaper[c]]
                    /\ cerr'[c] = "raised"
               ELSE /\ cpc'[c] = "L129"
                    /\ cerr'[c] = "handled"
       /\ (cpc[c] = "L125" /\ cpc'[c] # "L125")
          => cpc'[c] = "L126" /\ heap'[cstatus[c]].status = "error"
       /\ (cpc[c] = "L126" /\ cpc'[c] # "L126")
          => cpc'[c] = "L127" /\ heap'[cstatus[c]].completed_at # 0
       /\ (cpc[c] = "L127" /\ cpc'[c] # "L127")
          => /\ cpc'[c] = "L129"
             /\ cerr'[c] = "handled"
             /\ conversion_statuses[cpaper[c]] = cstatus[c] => heap'[cstatus[c]].error # 0
       /\ (cpc[c] # "finished" /\ cpc'[c] = "finished")
          => /\ cret'.c = c
             /\ cret'.error \in {"none", "handled"}
             /\ cerr[c] # "raised"]_vars

\* a run whose subprocess had been started failed, and is about to return
\* with error, completion timestamp and message on the paper's record
C19_Witness ==
  \E c \in Reqs :
    /\ cpc[c] = "L129"
    /\ cerr[c] = "handled"
    /\ subproc[c]
    /\ conversion_statuses[cpaper[c]] # 0
    /\ heap[conversion_statuses[cpaper[c]]].status = "error"
    /\ heap[conversion_statuses[cpaper[c]]].completed_at # 0
    /\ heap[conversion_statuses[cpaper[c]]].error # 0

\* ---- C20 ----
\* C20: a converter run takes its success branch, where it records success
\* on the paper's record, exactly when the executable was found, the
\* subprocess exited with code 0 and the output file exists with non-zero
\* size; exit code 0 with a missing or zero-byte output is an error; only a
\* step of the success branch writes success; and the PDF is removed by no
\* step other than the unlink of a run that then returns without error, so
\* a run that ends in error has left the PDF alone.
C20_OutcomeClassification ==
  [][/\ \A c \in Reqs :
          /\ ConvRunEnd(c, "zero")
             => IF md[cpaper[c]] = "full"
                  THEN cpc'[c] = "L113" /\ cerr'[c] = "none"
                  ELSE cpc'[c] = "L123" /\ cerr'[c] = "raised"
          /\ (cpc[c] # "L113" /\ cpc'[c] = "L113")
             => /\ subproc[c]
                /\ ConvRunEnd(c, "zero")
                /\ md[cpaper[c]] = "full"
          /\ (cpc[c] = "L113" /\ cpc'[c] # "L113")
             => IF conversion_statuses[cpaper[c]] # 0
                  THEN cpc'[c] = "L115" /\ cstatus'[c] = conversion_statuses[cpaper[c]]
                  ELSE cpc'[c] = "L118"
          /\ (cpc[c] = "L115" /\ cpc'[c] # "L115")
             => heap'[cstatus[c]].status = "success" /\ cerr[c] = "none"
          /\ (cpc[c] = "L129" /\ cpc'[c] = "finished")
             => cret'.error = cerr[c]
          /\ (cerr[c] # "none" /\ cpc'[c] # cpc[c]) => pdf' = pdf
          /\ ConvUnlink(c, FALSE) => pdf' = pdf
     /\ \A o \in Reqs :
          (heap[o].status # "success" /\ heap'[o].status = "success")
          => \E c \in Reqs : cpc[c] = "L115" /\ cpc'[c] = "L116" /\ cstatus[c] = o
     /\ \A p \in Papers :
          (pdf[p] /\ ~pdf'[p])
          => \E c \in Reqs : /\ cpaper[c] = p
                             /\ cpc[c] = "L118" /\ cpc'[c] = "L129"
                             /\ cerr'[c] = "none"]_vars

\* a run whose subprocess left a zero-byte output is in its except clause,
\* the paper's record says error and the PDF is on disk
C20_Witness ==
  \E c \in Reqs :
    /\ cpc[c] = "L126"
    /\ subproc[c]
    /\ md[cpaper[c]] = "empty"
    /\ pdf[cpaper[c]]
    /\ heap[cstatus[c]].status = "error"

\* ---- C21 ----
\* C21 as stated: the disk is consulted first and the registry second: a
\* check_status request and a new request for a paper whose Markdown artifact
\* exists both answer success from the disk (the new request in its first
\* step, the check in its disk test), and a request goes on to the registry
\* entry only when there is no artifact.
C21_Original ==
  [][\A h \in Reqs :
       /\ (Calls(h) /\ CallArgs(h).paper_id # 0 /\ md[CallArgs(h).paper_id] # "absent")
          => \/ /\ ret'.h = h
                /\ ret'.resp.status = "success"
                /\ ret'.resp.resource_uri = CallArgs(h).paper_id
             \/ /\ pc'[h] = "L142"
                /\ ret' = NoRet
       /\ (Moves(h, "L142") /\ md[arguments[h].paper_id] # "absent")
          => /\ ret'.h = h
             /\ ret'.resp.status = "success"
             /\ ret'.resp.resource_uri = arguments[h].paper_id
       /\ (Calls(h) /\ pc'[h] \in {"L172", "L198"})
          => md[CallArgs(h).paper_id] = "absent"]_vars

\* C21 amended: a new request consults the disk first and the registry
\* second: with an artifact it answers success from the disk whatever the
\* registry holds, and goes on to the registry test only without one. A
\* check_status request consults the registry first and the disk second:
\* with an entry it goes on to report that entry whether or not an artifact
\* exists, and only without an entry it answers from the disk, success with
\* an artifact and unknown without.
C21_Amended ==
  [][\A h \in Reqs :
       /\ (Calls(h) /\ ~CallArgs(h).check_status /\ CallArgs(h).paper_id # 0)
          => IF md[CallArgs(h).paper_id] # "absent"
               THEN /\ ret'.h = h
                    /\ ret'.resp.status = "success"
                    /\ ret'.resp.message = "Paper already available"
                    /\ ret'.resp.resource_uri = CallArgs(h).paper_id
               ELSE pc'[h] = "L198" /\ ret' = NoRet
       /\ (Calls(h) /\ CallArgs(h).check_status /\ CallArgs(h).paper_id # 0)
          => IF conversion_statuses[CallArgs(h).paper_id] # 0
               THEN /\ pc'[h] = "L172"
                    /\ status'[h] = conversion_statuses[CallArgs(h).paper_id]
                    /\ ret' = NoRet
               ELSE pc'[h] = "L142" /\ status'[h] = 0
       /\ Moves(h, "L142")
          => /\ arguments[h].check_status
             /\ status[h] = 0
             /\ ret'.h = h
             /\ ret'.resp.status =
                  IF md[arguments[h].paper_id] # "absent" THEN "success" ELSE "unknown"
       /\ (Moves(h, "L172") \/ Moves(h, "L174") \/ Moves(h, "L175"))
          => /\ arguments[h].check_status
             /\ status[h] # 0
       /\ (ret'.h = h /\ ret'.arguments.check_status /\ Moves(h, "L175"))
          => ret'.resp.message = "Paper conversion"]_vars

\* a new request was answered from the disk while the paper's registry entry
\* says that the conversion is under way
C21_Witness ==
  /\ ret.h # 0
  /\ ~ret.arguments.check_status
  /\ ret.resp.message = "Paper already available"
  /\ conversion_statuses[ret.arguments.paper_id] # 0
  /\ heap[conversion_statuses[ret.arguments.paper_id]].status = "converting"

\* ---- C22 ----
\* the replies that report success from the disk (lines 143-154 and 184-195)
DiskSuccess == {"Paper is ready", "Paper already available"}

\* C22: the Markdown artifact is there only when an HTML fetch or a
\* conversion of the paper has completed successfully. Checked where the
\* converter run c is the paper's only source of an artifact (its request
\* found none and every other request dispatched so far only read the disk):
\* a request is answered success from the disk only when run c has passed its
\* output test without an exception, or has the non-empty output it raised
\* after; and a run that has ended in error leaves no zero-byte artifact.
C22_CompletionSignal ==
  \A c \in Reqs :
    /\ (/\ ret.h \notin {0, c}
        /\ ret.resp.status = "success"
        /\ ret.resp.message \in DiskSuccess
        /\ ret.arguments.paper_id = cpaper[c]
        /\ cpc[c] \notin {"none", "finished"}
        /\ \A g \in Reqs \ {c, ret.h} : pc[g] = "idle")
       => /\ cpc[c] \notin {"scheduled", "L100"}
          /\ cerr[c] # "none" => md[cpaper[c]] = "full"
    /\ (/\ cret.c = c
        /\ cret.error = "handled"
        /\ \A g \in Reqs \ {c} : pc[g] = "idle")
       => md[cret.paper_id] # "empty"

\* ---- C23 ----
\* C23: in every reachable state, a paper for which a converter run is in
\* progress (scheduled and not yet returned) has a registry entry, so that a
\* check_status request dispatched then is not answered from the disk.
C23_EntryWhileConverting ==
  \A c \in Reqs :
    cpc[c] \notin {"none", "finished"} => conversion_statuses[cpaper[c]] # 0

C25_CheckStatusReadOnly ==
  [][\A h \in Reqs :
       (\/ Calls(h) /\ CallArgs(h).check_status
        \/ arguments[h].check_status /\ pc'[h] # pc[h])
       => /\ UNCHANGED <<conversion_statuses, md, pdf, cpc, cpaper, cstatus, cerr, subproc>>
          /\ \A p \in Papers :
               conversion_statuses[p] # 0
               => heap'[conversion_statuses[p]] = heap[conversion_statuses[p]]
          /\ \A o \in Reqs : heap'[o] \in {heap[o], NoObject}
          /\ did'[h] = {}
          /\ pc'[h] \notin PdfLines \cup {"L198", "L199", "L205", "L220"}
          /\ ret'.h = h => ret'.did = {}]_vars

\* a status check has reported a failed conversion with its message, and the
\* entry it read is in the registry as it was
C25_Witness ==
  /\ ret.h # 0
  /\ ret.arguments.check_status
  /\ ret.resp.message = "Paper conversion"
  /\ ret.resp.status = "error"
  /\ ret.resp.error # 0
  /\ conversion_statuses[ret.arguments.paper_id] # 0
  /\ heap[conversion_statuses[ret.arguments.paper_id]].status = "error"
  /\ heap[conversion_statuses[ret.arguments.paper_id]].error = ret.resp.error

====
